---- MODULE Spec2Model ----
(***************************************************************************)
(* State-machine model of auto_checkin.py: main -> AutoCheckin.run ->      *)
(* login_unlimited -> do_checkin -> send_notification.  Every await of the *)
(* source is one step; the page, the browser driver, the OCR engine and    *)
(* the notification service are the environment, whose answers (element    *)
(* found, timeout, error raised, text recognised) are chosen with \E.      *)
(***************************************************************************)
EXTENDS Integers, Sequences, FiniteSets, TLC

\* ---------------------------------------------------------------- bounds
MaxAttempts == 3      \* login attempts explored (the loop itself is unbounded)
MaxElems == 2         \* distinct page elements a selector can resolve to
MaxButtons == 2       \* buttons listed by the full button scan

\* ------------------------------------------------------ program constants
login_url == "https://qd.dxssxdk.com/lanhu_yonghudenglu"
other_url == "https://qd.dxssxdk.com/home"
NumSelectors == 7
NumIndicators == 5

Urls == {login_url, other_url}
CaptchaTexts == {"", "AB12"}
NoFill == [attempt |-> 0, text |-> "", reloads |-> 0]
NoMatch == [selector |-> 0, element |-> 0]

VARIABLES
    pc,               \* position in the program
    envUser, envPass, \* CHECKIN_USERNAME / CHECKIN_PASSWORD
    argv,             \* sys.argv
    appToken, uid,    \* WXPUSHER_APP_TOKEN / WXPUSHER_UID
    ocr,              \* module-level ocr object: TRUE = loaded, FALSE = None
    username, password,
    playwright, browser, page,       \* handles: FALSE = None
    browserClosed,      \* browser.close(): "no" (not called) | "closed" | "error"
    playwrightStopped,  \* playwright.stop(): "no" (not called) | "stopped" | "error"
    loginResult, checkinResult, runResult,   \* "none" | "True" | "False"
    runError,         \* the step of run whose exception reached run's handler, "" if none
    exitCode,         \* -1 while the process runs
    notified,         \* kind of the notification posted, "" if none
    delivered,        \* what became of the post: "none" | "ok" | "rejected" | "error"
    attempt, url, captcha_text, login_button, attemptLog,
    reloads, firstFill, otherError, solverLog,
    backoff,          \* seconds slept by the handler of line 214 when it last ran
    loginDom,         \* the login-button candidates present at the query of line 176
    account_list_clicked, expand_clicked,
    selIdx, submit_button, evaluated, firstMatch, textFailed,
    scanned, scanPick, clickIssued, clickCompleted, indIdx, indicator,
    submitClicks,     \* how often the click of line 368 was issued in this process
    scanList,         \* the buttons listed by the scan of line 340, in order
    dump              \* page_content.html: "none" | "written" | "skipped" | "failed"

mainVars == <<envUser, envPass, argv, appToken, uid, ocr, username, password,
              exitCode, notified, delivered>>
runVars == <<playwright, browser, page, browserClosed, playwrightStopped,
             runResult, runError>>
loginVars == <<loginResult, attempt, url, captcha_text, login_button,
               attemptLog, reloads, firstFill, otherError, solverLog,
               backoff, loginDom>>
checkinVars == <<checkinResult, account_list_clicked, expand_clicked, selIdx,
                 scanList,
                 submit_button, evaluated, firstMatch, textFailed, scanned,
                 scanPick, clickIssued, submitClicks, clickCompleted, indIdx, indicator, dump>>
vars == <<pc, mainVars, runVars, loginVars, checkinVars>>

\* The environments the process is started in: the two required secrets
\* from the environment, from the command line, or missing; the two
\* optional secrets of the notification service.
Credentials ==
    { [user |-> "u", pass |-> "p", argv |-> <<"auto_checkin.py">>],
      [user |-> "u", pass |-> "",  argv |-> <<"auto_checkin.py">>],
      [user |-> "",  pass |-> "",  argv |-> <<"auto_checkin.py", "u", "p">>],
      [user |-> "",  pass |-> "",  argv |-> <<"auto_checkin.py">>] }
Secrets ==
    { [token |-> "AT_x", uid |-> "UID_x"],
      [token |-> "AT_x", uid |-> ""],
      [token |-> "",     uid |-> ""] }

\* Python truthiness of a str
Truthy(s) == s # ""

Init ==
    /\ pc = "main"
    /\ \E c \in Credentials :
         /\ envUser = c.user
         /\ envPass = c.pass
         /\ argv = c.argv
    /\ \E n \in Secrets :
         /\ appToken = n.token
         /\ uid = n.uid
    /\ ocr \in BOOLEAN
    /\ username = ""
    /\ password = ""
    /\ playwright = FALSE
    /\ browser = FALSE
    /\ page = FALSE
    /\ browserClosed = "no"
    /\ playwrightStopped = "no"
    /\ loginResult = "none"
    /\ checkinResult = "none"
    /\ runResult = "none"
    /\ runError = ""
    /\ exitCode = -1
    /\ notified = ""
    /\ delivered = "none"
    /\ attempt = 0
    /\ url = login_url
    /\ captcha_text = ""
    /\ login_button = "none"
    /\ attemptLog = <<>>
    /\ reloads = 0
    /\ firstFill = NoFill
    /\ otherError = FALSE
    /\ solverLog = <<>>
    /\ backoff = 0
    /\ loginDom = <<>>
    /\ account_list_clicked = FALSE
    /\ expand_clicked = FALSE
    /\ selIdx = 0
    /\ submit_button = 0
    /\ evaluated = {}
    /\ firstMatch = NoMatch
    /\ textFailed = FALSE
    /\ scanned = FALSE
    /\ clickIssued = FALSE
    /\ submitClicks = 0
    /\ clickCompleted = FALSE
    /\ indIdx = 0
    /\ indicator = 0
    /\ scanPick = ""
    /\ scanList = <<>>
    /\ dump = "none"

\* ------------------------------------------------------------------ main
\* main, lines 541-557: credentials from the environment, else from argv,
\* else log the usage and return (the process then ends normally).
MainReadCredentials ==
    /\ pc = "main"
    /\ IF Truthy(envUser) /\ Truthy(envPass)
         THEN /\ username' = envUser
              /\ password' = envPass
              /\ pc' = "run_start"
              /\ UNCHANGED exitCode
         ELSE IF Len(argv) >= 3
           THEN /\ username' = argv[2]
                /\ password' = argv[3]
                /\ pc' = "run_start"
                /\ UNCHANGED exitCode
           ELSE /\ pc' = "exited"
                /\ exitCode' = 0
                /\ UNCHANGED <<username, password>>
    /\ UNCHANGED <<envUser, envPass, argv, appToken, uid, ocr, notified, delivered>>
    /\ UNCHANGED <<runVars, loginVars, checkinVars>>

\* send_notification, lines 511-512: nothing is posted without both secrets
NotificationConfigured(token, u) == Truthy(token) /\ Truthy(u)

\* variant: an error of the request leaves send_notification and ends the
\* process with the code of an uncaught exception
MainFinish_escalate ==
    /\ pc = "main_report"
    /\ IF NotificationConfigured(appToken, uid)
         THEN /\ notified' = IF runResult = "True" THEN "success" ELSE "failure"
              /\ \E delivery \in {"ok", "rejected", "error"} : delivered' = delivery
         ELSE UNCHANGED <<notified, delivered>>
    /\ exitCode' = IF runResult = "True" /\ delivered' # "error" THEN 0 ELSE 1
    /\ pc' = "exited"
    /\ UNCHANGED <<envUser, envPass, argv, appToken, uid, ocr, username, password>>
    /\ UNCHANGED <<runVars, loginVars, checkinVars>>

\* main, lines 580-588 with send_notification, lines 501-537: the request
\* may fail in any way (all caught inside send_notification); then exit.
MainFinish ==
    /\ pc = "main_report"
    /\ IF NotificationConfigured(appToken, uid)
         THEN /\ notified' = IF runResult = "True" THEN "success" ELSE "failure"
              /\ \E delivery \in {"ok", "rejected", "error"} : delivered' = delivery
         ELSE UNCHANGED <<notified, delivered>>
    /\ exitCode' = IF runResult = "True" THEN 0 ELSE 1
    /\ pc' = "exited"
    /\ UNCHANGED <<envUser, envPass, argv, appToken, uid, ocr, username, password>>
    /\ UNCHANGED <<runVars, loginVars, checkinVars>>

\* init_browser, lines 57-75: starts a driver, launches a browser and opens
\* a page, leaving browser and page on the instance.  The driver handle is
\* a local of the method, so it is lost on return, and an error of any call
\* leaves the method.  No line of the program calls it (run does the same
\* steps itself, lines 445-463), so it is no step of Next.
init_browser ==
    /\ \E outcome \in {"ok", "start_error", "launch_error", "context_error",
                        "page_error"} :
         /\ browser' = IF outcome \in {"ok", "context_error", "page_error"}
                          THEN TRUE ELSE browser
         /\ page' = IF outcome = "ok" THEN TRUE ELSE page
    /\ UNCHANGED <<pc, playwright, browserClosed, playwrightStopped, runResult,
                   runError>>
    /\ UNCHANGED <<mainVars, loginVars, checkinVars>>

\* ------------------------------------------------------------------- run
\* run, line 448: start the playwright driver
RunStartDriver ==
    /\ pc = "run_start"
    /\ \E ok \in BOOLEAN :
         IF ok THEN playwright' = TRUE /\ pc' = "run_launch" /\ UNCHANGED runError
               ELSE playwright' = playwright /\ pc' = "run_except"
                    /\ runError' = "driver"
    /\ UNCHANGED <<browser, page, browserClosed, playwrightStopped, runResult>>
    /\ UNCHANGED <<mainVars, loginVars, checkinVars>>

\* run, lines 451-454: launch chromium
RunLaunch ==
    /\ pc = "run_launch"
    /\ \E ok \in BOOLEAN :
         IF ok THEN browser' = TRUE /\ pc' = "run_page" /\ UNCHANGED runError
               ELSE browser' = browser /\ pc' = "run_except"
                    /\ runError' = "launch"
    /\ UNCHANGED <<playwright, page, browserClosed, playwrightStopped, runResult>>
    /\ UNCHANGED <<mainVars, loginVars, checkinVars>>

\* run, lines 457-463: new_context, new_page
RunNewPage ==
    /\ pc = "run_page"
    /\ \E outcome \in {"ok", "context_error", "page_error"} :
         IF outcome = "ok" THEN page' = TRUE /\ pc' = "login_goto"
                                /\ UNCHANGED runError
                           ELSE page' = page /\ pc' = "run_except"
                                /\ runError' = outcome
    /\ UNCHANGED <<playwright, browser, browserClosed, playwrightStopped, runResult>>
    /\ UNCHANGED <<mainVars, loginVars, checkinVars>>

\* variant: run goes on to do_checkin whatever login_unlimited returned
RunAfterLogin_always ==
    /\ pc = "run_after_login"
    /\ pc' = "checkin_start"
    /\ UNCHANGED runResult
    /\ attempt' = 0
    /\ captcha_text' = ""
    /\ login_button' = "none"
    /\ attemptLog' = <<>>
    /\ reloads' = 0
    /\ firstFill' = NoFill
    /\ otherError' = FALSE
    /\ solverLog' = <<>>
    /\ backoff' = 0
    /\ loginDom' = <<>>
    /\ UNCHANGED <<loginResult, url>>
    /\ UNCHANGED <<playwright, browser, page, browserClosed, playwrightStopped,
                   runError>>
    /\ UNCHANGED <<mainVars, checkinVars>>

\* run, lines 466-468.  The locals of login_unlimited and the record of
\* what that call did to the page end with the call.
RunAfterLogin ==
    /\ pc = "run_after_login"
    /\ IF loginResult = "True"
         THEN pc' = "checkin_start" /\ UNCHANGED runResult
         ELSE pc' = "run_finally" /\ runResult' = "False"
    /\ attempt' = 0
    /\ captcha_text' = ""
    /\ login_button' = "none"
    /\ attemptLog' = <<>>
    /\ reloads' = 0
    /\ firstFill' = NoFill
    /\ otherError' = FALSE
    /\ solverLog' = <<>>
    /\ backoff' = 0
    /\ loginDom' = <<>>
    /\ UNCHANGED <<loginResult, url>>
    /\ UNCHANGED <<playwright, browser, page, browserClosed, playwrightStopped,
                   runError>>
    /\ UNCHANGED <<mainVars, checkinVars>>

\* run, lines 471-476.  The locals of do_checkin end with the call; what
\* it did to the page and to the disk stays.
RunAfterCheckin ==
    /\ pc = "run_after_checkin"
    /\ runResult' = IF checkinResult = "True" THEN "True" ELSE "False"
    /\ pc' = "run_finally"
    /\ account_list_clicked' = FALSE
    /\ expand_clicked' = FALSE
    /\ selIdx' = 0
    /\ submit_button' = 0
    /\ evaluated' = {}
    /\ firstMatch' = NoMatch
    /\ textFailed' = FALSE
    /\ scanned' = FALSE
    /\ scanPick' = ""
    /\ scanList' = <<>>
    /\ indIdx' = 0
    /\ indicator' = 0
    /\ UNCHANGED <<checkinResult, clickIssued, submitClicks, clickCompleted, dump>>
    /\ UNCHANGED <<playwright, browser, page, browserClosed, playwrightStopped,
                   runError>>
    /\ UNCHANGED <<mainVars, loginVars>>

\* variant: run's handler logs the exception and reports success
RunExcept_true ==
    /\ pc = "run_except"
    /\ runResult' = "True"
    /\ pc' = "run_finally"
    /\ UNCHANGED <<playwright, browser, page, browserClosed, playwrightStopped,
                   runError>>
    /\ UNCHANGED <<mainVars, loginVars, checkinVars>>

\* run, lines 478-482
RunExcept ==
    /\ pc = "run_except"
    /\ runResult' = "False"
    /\ pc' = "run_finally"
    /\ UNCHANGED <<playwright, browser, page, browserClosed, playwrightStopped,
                   runError>>
    /\ UNCHANGED <<mainVars, loginVars, checkinVars>>

\* run, lines 484-495: one try block around sleep, browser.close() and
\* playwright.stop(); an error in close() skips stop().
RunFinally ==
    /\ pc = "run_finally"
    /\ \E closeOk \in BOOLEAN, stopOk \in BOOLEAN :
         /\ browserClosed' = IF ~browser THEN "no"
                              ELSE IF closeOk THEN "closed" ELSE "error"
         /\ playwrightStopped' =
              IF ~playwright \/ (browser /\ ~closeOk) THEN "no"
              ELSE IF stopOk THEN "stopped" ELSE "error"
    /\ pc' = "main_report"
    /\ UNCHANGED <<playwright, browser, page, runResult, runError>>
    /\ UNCHANGED <<mainVars, loginVars, checkinVars>>

\* ------------------------------------------------------- login_unlimited
\* solve_captcha, lines 77-124: every failure on the way to the image bytes
\* (wait timeout, no element, src not a data URI, decode error, OCR error)
\* yields "", and so does a missing OCR engine; otherwise the OCR's text.
solve_captcha(image, recognised) ==
    IF image # "ok" THEN ""
    ELSE IF ocr THEN recognised
    ELSE ""

ImageOutcomes == {"ok", "timeout", "no_element", "bad_src", "decode_error", "ocr_error"}

\* variant: the emptiness test is lost and every text goes on to the form
CaptchaMissing_never(text) == FALSE

\* login_unlimited, line 163: `if not captcha_text`
CaptchaMissing(text) == ~Truthy(text)

\* variant: the outcome check takes any address for a success
LoginSucceeded_any(current_url) == TRUE

\* login_unlimited, line 206: `if current_url != self.login_url`
LoginSucceeded(current_url) == current_url # login_url

\* variant: the alternatives of the selector list are tried in their order
FindLoginButton_priority(dom) ==
    IF dom = <<>> THEN "none"
    ELSE IF \E i \in 1..Len(dom) : dom[i] = "text" THEN "text"
    ELSE "class"

\* login_unlimited, line 176: query_selector on a selector list returns the
\* first element of the document that matches any of the alternatives.
\* dom lists, in document order, the candidates present: "text" is a button
\* whose text has 登录/登錄, "class" an element of class login-btn/submit-btn.
FindLoginButton(dom) == IF dom = <<>> THEN "none" ELSE dom[1]

LoginDoms == {<<>>, <<"text">>, <<"class">>, <<"text", "class">>, <<"class", "text">>}

\* login_unlimited, lines 137-143 and 218-220: the initial navigation is
\* outside the retry loop; an error there is caught by the outer handler,
\* which returns False.
LoginGoto ==
    /\ pc = "login_goto"
    /\ \E ok \in BOOLEAN :
         IF ok THEN /\ pc' = "loop_top"
                    /\ attempt' = 0
                    /\ UNCHANGED loginResult
               ELSE /\ pc' = "run_after_login"
                    /\ loginResult' = "False"
                    /\ UNCHANGED attempt
    /\ UNCHANGED <<url, captcha_text, login_button, attemptLog, reloads,
                   firstFill, otherError>>
    /\ UNCHANGED <<solverLog, backoff, loginDom>>
    /\ UNCHANGED <<mainVars, runVars, checkinVars>>

\* variant: the counter is incremented twice per iteration
LoopTop_skip ==
    /\ pc = "loop_top"
    /\ attempt < MaxAttempts
    /\ attempt' = attempt + 2
    /\ attemptLog' = <<>>
    /\ pc' = "l_wait_user"
    /\ UNCHANGED <<loginResult, url, captcha_text, login_button, reloads,
                   firstFill, otherError>>
    /\ UNCHANGED <<solverLog, backoff, loginDom>>
    /\ UNCHANGED <<mainVars, runVars, checkinVars>>

\* login_unlimited, lines 144-146: `while True: attempt += 1`
LoopTop ==
    /\ pc = "loop_top"
    /\ attempt < MaxAttempts
    /\ attempt' = attempt + 1
    /\ attemptLog' = <<>>
    /\ pc' = "l_wait_user"
    /\ UNCHANGED <<loginResult, url, captcha_text, login_button, reloads,
                   firstFill, otherError>>
    /\ UNCHANGED <<solverLog, backoff, loginDom>>
    /\ UNCHANGED <<mainVars, runVars, checkinVars>>

\* a step of the attempt that raised: control goes to the handler of line 214
Raised ==
    /\ pc' = "l_except"
    /\ otherError' = TRUE

\* login_unlimited, line 150
WaitUsername ==
    /\ pc = "l_wait_user"
    /\ \E ok \in BOOLEAN :
         IF ok THEN pc' = "l_fill_user" /\ UNCHANGED otherError
               ELSE Raised
    /\ UNCHANGED <<loginResult, attempt, url, captcha_text, login_button,
                   attemptLog, reloads, firstFill>>
    /\ UNCHANGED <<solverLog, backoff, loginDom>>
    /\ UNCHANGED <<mainVars, runVars, checkinVars>>

\* login_unlimited, line 153
FillUsername ==
    /\ pc = "l_fill_user"
    /\ attemptLog' = Append(attemptLog, "fill_user")
    /\ \E ok \in BOOLEAN :
         IF ok THEN pc' = "l_fill_pass" /\ UNCHANGED otherError
               ELSE Raised
    /\ UNCHANGED <<loginResult, attempt, url, captcha_text, login_button,
                   reloads, firstFill>>
    /\ UNCHANGED <<solverLog, backoff, loginDom>>
    /\ UNCHANGED <<mainVars, runVars, checkinVars>>

\* login_unlimited, line 157
FillPassword ==
    /\ pc = "l_fill_pass"
    /\ attemptLog' = Append(attemptLog, "fill_pass")
    /\ \E ok \in BOOLEAN :
         IF ok THEN pc' = "l_solve" /\ UNCHANGED otherError
               ELSE Raised
    /\ UNCHANGED <<loginResult, attempt, url, captcha_text, login_button,
                   reloads, firstFill>>
    /\ UNCHANGED <<solverLog, backoff, loginDom>>
    /\ UNCHANGED <<mainVars, runVars, checkinVars>>

\* login_unlimited, lines 161-163: recognise, then branch on the result
SolveCaptcha ==
    /\ pc = "l_solve"
    /\ \E image \in ImageOutcomes, recognised \in CaptchaTexts :
         /\ captcha_text' = solve_captcha(image, recognised)
         /\ pc' = IF CaptchaMissing(captcha_text') THEN "l_reload"
                                                   ELSE "l_fill_captcha"
    /\ attemptLog' = Append(attemptLog, "solve")
    /\ solverLog' = Append(solverLog, captcha_text')
    /\ UNCHANGED <<backoff, loginDom>>
    /\ UNCHANGED <<loginResult, attempt, url, login_button, reloads,
                   firstFill, otherError>>
    /\ UNCHANGED <<mainVars, runVars, checkinVars>>

\* variant: the empty branch continues without reloading the page
ReloadAndRetry_noreload ==
    /\ pc = "l_reload"
    /\ reloads' = reloads
    /\ attemptLog' = Append(attemptLog, "sleep")
    /\ \E ok \in BOOLEAN :
         IF ok THEN pc' = "loop_top" /\ UNCHANGED otherError
               ELSE Raised
    /\ UNCHANGED <<loginResult, attempt, url, captcha_text, login_button,
                   firstFill>>
    /\ UNCHANGED <<solverLog, backoff, loginDom>>
    /\ UNCHANGED <<mainVars, runVars, checkinVars>>

\* login_unlimited, lines 166-168: reload, sleep, continue
ReloadAndRetry ==
    /\ pc = "l_reload"
    /\ reloads' = reloads + 1
    /\ attemptLog' = Append(attemptLog, "reload")
    /\ \E ok \in BOOLEAN :
         IF ok THEN pc' = "loop_top" /\ UNCHANGED otherError
               ELSE Raised
    /\ UNCHANGED <<loginResult, attempt, url, captcha_text, login_button,
                   firstFill>>
    /\ UNCHANGED <<solverLog, backoff, loginDom>>
    /\ UNCHANGED <<mainVars, runVars, checkinVars>>

\* login_unlimited, line 171
FillCaptcha ==
    /\ pc = "l_fill_captcha"
    /\ attemptLog' = Append(attemptLog, "fill_captcha")
    /\ firstFill' = IF firstFill = NoFill
                      THEN [attempt |-> attempt, text |-> captcha_text,
                            reloads |-> reloads]
                      ELSE firstFill
    /\ \E ok \in BOOLEAN :
         IF ok THEN pc' = "l_find_button" /\ UNCHANGED otherError
               ELSE Raised
    /\ UNCHANGED <<loginResult, attempt, url, captcha_text, login_button,
                   reloads>>
    /\ UNCHANGED <<solverLog, backoff, loginDom>>
    /\ UNCHANGED <<mainVars, runVars, checkinVars>>

\* login_unlimited, lines 176-178
FindButton ==
    /\ pc = "l_find_button"
    /\ \/ \E dom \in LoginDoms :
            /\ login_button' = FindLoginButton(dom)
            /\ loginDom' = dom
            /\ pc' = IF login_button' # "none" THEN "l_click" ELSE "l_press"
            /\ UNCHANGED otherError
       \/ Raised /\ UNCHANGED <<login_button, loginDom>>
    /\ UNCHANGED <<loginResult, attempt, url, captcha_text, attemptLog,
                   reloads, firstFill>>
    /\ UNCHANGED <<solverLog, backoff>>
    /\ UNCHANGED <<mainVars, runVars, checkinVars>>

\* variant: the else of line 181 is lost and Enter is pressed after the click
ClickLogin_fallthrough ==
    /\ pc = "l_click"
    /\ attemptLog' = Append(attemptLog, "click")
    /\ \E u \in Urls : url' = u
    /\ \E ok \in BOOLEAN :
         IF ok THEN pc' = "l_press" /\ UNCHANGED otherError
               ELSE Raised
    /\ UNCHANGED <<loginResult, attempt, captcha_text, login_button, reloads,
                   firstFill>>
    /\ UNCHANGED <<solverLog, backoff, loginDom>>
    /\ UNCHANGED <<mainVars, runVars, checkinVars>>

\* login_unlimited, lines 179 and 187: click the button, then settle.  The
\* page may navigate whether or not the call ends with an error.
ClickLogin ==
    /\ pc = "l_click"
    /\ attemptLog' = Append(attemptLog, "click")
    /\ \E u \in Urls : url' = u
    /\ \E ok \in BOOLEAN :
         IF ok THEN pc' = "l_popup" /\ UNCHANGED otherError
               ELSE Raised
    /\ UNCHANGED <<loginResult, attempt, captcha_text, login_button, reloads,
                   firstFill>>
    /\ UNCHANGED <<solverLog, backoff, loginDom>>
    /\ UNCHANGED <<mainVars, runVars, checkinVars>>

\* login_unlimited, lines 183 and 187: press Enter on the captcha input
PressEnter ==
    /\ pc = "l_press"
    /\ attemptLog' = Append(attemptLog, "enter")
    /\ \E u \in Urls : url' = u
    /\ \E ok \in BOOLEAN :
         IF ok THEN pc' = "l_popup" /\ UNCHANGED otherError
               ELSE Raised
    /\ UNCHANGED <<loginResult, attempt, captcha_text, login_button, reloads,
                   firstFill>>
    /\ UNCHANGED <<solverLog, backoff, loginDom>>
    /\ UNCHANGED <<mainVars, runVars, checkinVars>>

\* login_unlimited, lines 190-201: the popup is closed if it shows up; a
\* timeout or a click error is swallowed by the bare except.
HandlePopup ==
    /\ pc = "l_popup"
    /\ \E outcome \in {"timeout", "closed", "click_error"} :
         attemptLog' = Append(attemptLog, "popup")
    /\ pc' = "l_check"
    /\ UNCHANGED <<loginResult, attempt, url, captcha_text, login_button,
                   reloads, firstFill, otherError>>
    /\ UNCHANGED <<solverLog, backoff, loginDom>>
    /\ UNCHANGED <<mainVars, runVars, checkinVars>>

\* login_unlimited, lines 204-212: the outcome check
CheckOutcome ==
    /\ pc = "l_check"
    /\ IF LoginSucceeded(url)
         THEN /\ loginResult' = "True"
              /\ pc' = "run_after_login"
              /\ UNCHANGED attemptLog
         ELSE /\ attemptLog' = Append(attemptLog, "sleep")
              /\ pc' = "loop_top"
              /\ UNCHANGED loginResult
    /\ UNCHANGED <<attempt, url, captcha_text, login_button, reloads,
                   firstFill, otherError>>
    /\ UNCHANGED <<solverLog, backoff, loginDom>>
    /\ UNCHANGED <<mainVars, runVars, checkinVars>>

\* variant: the delay doubles with every attempt
BackoffDelay_exponential(n) == 2 ^ n

\* login_unlimited, line 216: the delay before the iteration after attempt n
BackoffDelay(n) == 2

\* variant: the handler of an attempt gives up and returns False
AttemptExcept_return ==
    /\ pc = "l_except"
    /\ attemptLog' = Append(attemptLog, "backoff")
    /\ backoff' = BackoffDelay(attempt)
    /\ pc' = "run_after_login"
    /\ loginResult' = "False"
    /\ UNCHANGED <<attempt, url, captcha_text, login_button,
                   reloads, firstFill, otherError>>
    /\ UNCHANGED <<solverLog, loginDom>>
    /\ UNCHANGED <<mainVars, runVars, checkinVars>>

\* login_unlimited, lines 214-216: log, sleep 2 seconds, next iteration
AttemptExcept ==
    /\ pc = "l_except"
    /\ attemptLog' = Append(attemptLog, "backoff")
    /\ backoff' = BackoffDelay(attempt)
    /\ pc' = "loop_top"
    /\ UNCHANGED <<loginResult, attempt, url, captcha_text, login_button,
                   reloads, firstFill, otherError>>
    /\ UNCHANGED <<solverLog, loginDom>>
    /\ UNCHANGED <<mainVars, runVars, checkinVars>>

\* ------------------------------------------------------------ do_checkin
\* do_checkin, lines 229-243: settle, screenshot (errors swallowed), log
CheckinStart ==
    /\ pc = "checkin_start"
    /\ \E shot \in {"ok", "error"} : pc' = "c_nav"
    /\ UNCHANGED <<mainVars, runVars, loginVars, checkinVars>>

\* do_checkin, lines 249-272: step 1 by label.  A timeout of the wait or an
\* error of the click goes to the fallback; a wait that yields nothing
\* leaves the step without a click.
NavByLabel ==
    /\ pc = "c_nav"
    /\ \E outcome \in {"clicked", "nothing", "timeout", "click_error"} :
         /\ account_list_clicked' = (outcome = "clicked")
         /\ pc' = IF outcome \in {"timeout", "click_error"}
                    THEN "c_nav_fallback" ELSE "c_expand"
    /\ UNCHANGED <<scanList, checkinResult, expand_clicked, selIdx, submit_button,
                   evaluated, firstMatch, textFailed, scanned, scanPick,
                   clickIssued, submitClicks, clickCompleted, indIdx, indicator, dump>>
    /\ UNCHANGED <<mainVars, runVars, loginVars>>

\* variant: an error in the fallback of step 1 aborts the check-in
NavByPosition_abort ==
    /\ pc = "c_nav_fallback"
    /\ \E items \in 0..2, outcome \in {"ok", "query_error", "click_error"} :
         /\ account_list_clicked' = (outcome = "ok" /\ items >= 2)
         /\ pc' = IF outcome = "ok" THEN "c_expand" ELSE "c_error"
    /\ UNCHANGED <<scanList, checkinResult, expand_clicked, selIdx, submit_button,
                   evaluated, firstMatch, textFailed, scanned, scanPick,
                   clickIssued, submitClicks, clickCompleted, indIdx, indicator, dump>>
    /\ UNCHANGED <<mainVars, runVars, loginVars>>

\* do_checkin, lines 275-286: step 1 by position (second .nav-item)
NavByPosition ==
    /\ pc = "c_nav_fallback"
    /\ \E items \in 0..2, outcome \in {"ok", "query_error", "click_error"} :
         account_list_clicked' = (outcome = "ok" /\ items >= 2)
    /\ pc' = "c_expand"
    /\ UNCHANGED <<scanList, checkinResult, expand_clicked, selIdx, submit_button,
                   evaluated, firstMatch, textFailed, scanned, scanPick,
                   clickIssued, submitClicks, clickCompleted, indIdx, indicator, dump>>
    /\ UNCHANGED <<mainVars, runVars, loginVars>>

\* do_checkin, lines 289-313: step 2, then the selector chain starts
Expand ==
    /\ pc = "c_expand"
    /\ \E outcome \in {"clicked", "nothing", "timeout", "click_error"} :
         expand_clicked' = (outcome = "clicked")
    /\ pc' = "c_select"
    /\ selIdx' = 1
    /\ UNCHANGED <<scanList, checkinResult, account_list_clicked, submit_button,
                   evaluated, firstMatch, textFailed, scanned, scanPick,
                   clickIssued, submitClicks, clickCompleted, indIdx, indicator, dump>>
    /\ UNCHANGED <<mainVars, runVars, loginVars>>

\* do_checkin, lines 336-337 and 359: where control goes once the for loop
\* over the selectors is left with submit_button = sb (0 is None)
AfterChain(sb) == IF sb = 0 THEN "c_scan" ELSE "c_submit"

\* do_checkin, lines 326-334: one iteration of the for loop.  The wait
\* either times out (submit_button keeps its value), or yields nothing, or
\* yields an element; the element is assigned before its text is read, and
\* an error of inner_text continues with the next selector.
\* found = 0: timeout; found = -1: None; found > 0: the element.
SelectorResult(sb, found) == IF found = 0 THEN sb
                             ELSE IF found = -1 THEN 0
                             ELSE found

\* do_checkin, lines 329-334: the loop is left by break only when an element
\* was found and its text was read
SelectorBreaks(found, textOk) == found > 0 /\ textOk

TrySelector ==
    /\ pc = "c_select"
    /\ selIdx \in 1..NumSelectors
    /\ evaluated' = evaluated \cup {selIdx}
    /\ \E found \in -1..MaxElems, textOk \in BOOLEAN :
         /\ submit_button' = SelectorResult(submit_button, found)
         /\ firstMatch' = IF firstMatch = NoMatch /\ found > 0
                            THEN [selector |-> selIdx, element |-> found]
                            ELSE firstMatch
         /\ textFailed' = (textFailed \/ (found > 0 /\ ~textOk))
         /\ IF SelectorBreaks(found, textOk)
              THEN pc' = AfterChain(submit_button') /\ UNCHANGED selIdx
              ELSE IF selIdx < NumSelectors
                THEN pc' = "c_select" /\ selIdx' = selIdx + 1
                ELSE pc' = AfterChain(submit_button') /\ UNCHANGED selIdx
    /\ UNCHANGED <<scanList, checkinResult, account_list_clicked, expand_clicked,
                   scanned, scanPick, clickIssued, submitClicks, clickCompleted, indIdx,
                   indicator, dump>>
    /\ UNCHANGED <<mainVars, runVars, loginVars>>

\* variant: the text of the button is compared for equality
ScanMatches_exact(text) == text = "exact"

\* do_checkin, line 349: `'提交打卡' in text`.  The text of a button is
\* "exact" when it is 提交打卡, "longer" when it contains it among other
\* characters, "other" when it does not contain it.
ScanMatches(text) == text \in {"exact", "longer"}

\* A button of the page: its text, and what reading it gives.  read is
\* "error" when inner_text() (line 345) raises or get_attribute('class')
\* (line 346) does, which is called after it and before the test of line
\* 349; both errors go to the same handler (line 353).
ButtonKinds == [text : {"exact", "longer", "other"}, read : {"ok", "error"}]
ButtonLists == UNION {[1..n -> ButtonKinds] : n \in 0..MaxButtons}

\* do_checkin, lines 344-347 and 353-354: the test of line 349 is reached
\* only when both reads returned; an error of either skips the button
ButtonRead(button) == button.read = "ok"

\* do_checkin, lines 343-354: index of the first button that matches, 0 if none
ScanButtons(buttons) ==
    LET hits == {i \in 1..Len(buttons) :
                   ButtonRead(buttons[i]) /\ ScanMatches(buttons[i].text)}
    IN IF hits = {} THEN 0 ELSE CHOOSE i \in hits : \A j \in hits : i <= j

\* do_checkin, lines 337-359: the scan of all buttons
ScanAllButtons ==
    /\ pc = "c_scan"
    /\ scanned' = TRUE
    /\ \/ \E buttons \in ButtonLists :
            LET hit == ScanButtons(buttons) IN
            /\ submit_button' = IF hit = 0 THEN 0 ELSE MaxElems + hit
            /\ scanPick' = IF hit = 0 THEN "" ELSE buttons[hit].text
            /\ scanList' = buttons
       \/ UNCHANGED <<submit_button, scanPick, scanList>>    \* query_selector_all raised
    /\ pc' = IF submit_button' = 0 THEN "c_no_button" ELSE "c_submit"
    /\ UNCHANGED <<checkinResult, account_list_clicked, expand_clicked, selIdx,
                   evaluated, firstMatch, textFailed, clickIssued, submitClicks,
                   clickCompleted, indIdx, indicator, dump>>
    /\ UNCHANGED <<mainVars, runVars, loginVars>>

\* do_checkin, lines 360-370: screenshot (errors swallowed), then the click,
\* which is outside any inner try: an error goes to the handler of line 424.
SubmitClick ==
    /\ pc = "c_submit"
    /\ clickIssued' = TRUE
    /\ submitClicks' = submitClicks + 1
    /\ \E ok \in BOOLEAN :
         /\ clickCompleted' = ok
         /\ pc' = IF ok THEN "c_indicators" ELSE "c_error"
    /\ indIdx' = 1
    /\ UNCHANGED <<scanList, checkinResult, account_list_clicked, expand_clicked, selIdx,
                   submit_button, evaluated, firstMatch, textFailed, scanned,
                   scanPick, indicator, dump>>
    /\ UNCHANGED <<mainVars, runVars, loginVars>>

\* do_checkin, lines 390-398: one iteration over the success indicators
DetectIndicator ==
    /\ pc = "c_indicators"
    /\ indIdx \in 1..NumIndicators
    /\ \E outcome \in {"timeout", "nothing", "found", "text_error"} :
         /\ indicator' = IF outcome = "found" THEN indIdx ELSE indicator
         /\ IF outcome = "found" \/ indIdx = NumIndicators
              THEN pc' = "c_return" /\ UNCHANGED indIdx
              ELSE pc' = "c_indicators" /\ indIdx' = indIdx + 1
    /\ UNCHANGED <<scanList, checkinResult, account_list_clicked, expand_clicked, selIdx,
                   submit_button, evaluated, firstMatch, textFailed, scanned,
                   scanPick, clickIssued, submitClicks, clickCompleted, dump>>
    /\ UNCHANGED <<mainVars, runVars, loginVars>>

\* variant: the result follows the detection of a success indicator
CheckinReturnTrue_detected ==
    /\ pc = "c_return"
    /\ checkinResult' = IF indicator # 0 THEN "True" ELSE "False"
    /\ pc' = "run_after_checkin"
    /\ UNCHANGED <<scanList, account_list_clicked, expand_clicked, selIdx,
                   submit_button, evaluated, firstMatch, textFailed, scanned,
                   scanPick, clickIssued, submitClicks, clickCompleted, indIdx, indicator, dump>>
    /\ UNCHANGED <<mainVars, runVars, loginVars>>

\* do_checkin, lines 402-405
CheckinReturnTrue ==
    /\ pc = "c_return"
    /\ checkinResult' = "True"
    /\ pc' = "run_after_checkin"
    /\ UNCHANGED <<scanList, account_list_clicked, expand_clicked, selIdx,
                   submit_button, evaluated, firstMatch, textFailed, scanned,
                   scanPick, clickIssued, submitClicks, clickCompleted, indIdx, indicator, dump>>
    /\ UNCHANGED <<mainVars, runVars, loginVars>>

\* do_checkin, lines 410-420: the screenshot and the dump of the page
\* content share one try block, so an error of the screenshot skips the dump
DumpOutcome(shot, content) ==
    IF shot # "ok" THEN "skipped"
    ELSE IF content # "ok" THEN "failed"
    ELSE "written"

\* do_checkin, lines 406-422: no submit control
NoSubmitButton ==
    /\ pc = "c_no_button"
    /\ \E shot \in {"ok", "error"}, content \in {"ok", "content_error", "write_error"} :
         dump' = DumpOutcome(shot, content)
    /\ checkinResult' = "False"
    /\ pc' = "run_after_checkin"
    /\ UNCHANGED <<scanList, account_list_clicked, expand_clicked, selIdx,
                   submit_button, evaluated, firstMatch, textFailed, scanned,
                   scanPick, clickIssued, submitClicks, clickCompleted, indIdx, indicator>>
    /\ UNCHANGED <<mainVars, runVars, loginVars>>

\* variant: the outer handler reports success
CheckinExcept_true ==
    /\ pc = "c_error"
    /\ checkinResult' = "True"
    /\ pc' = "run_after_checkin"
    /\ UNCHANGED <<scanList, account_list_clicked, expand_clicked, selIdx,
                   submit_button, evaluated, firstMatch, textFailed, scanned,
                   scanPick, clickIssued, submitClicks, clickCompleted, indIdx, indicator, dump>>
    /\ UNCHANGED <<mainVars, runVars, loginVars>>

\* do_checkin, lines 424-436: the outer handler
CheckinExcept ==
    /\ pc = "c_error"
    /\ checkinResult' = "False"
    /\ pc' = "run_after_checkin"
    /\ UNCHANGED <<scanList, account_list_clicked, expand_clicked, selIdx,
                   submit_button, evaluated, firstMatch, textFailed, scanned,
                   scanPick, clickIssued, submitClicks, clickCompleted, indIdx, indicator, dump>>
    /\ UNCHANGED <<mainVars, runVars, loginVars>>

\* ---------------------------------------------------------- specification
Next ==
    \/ MainReadCredentials
    \/ RunStartDriver
    \/ RunLaunch
    \/ RunNewPage
    \/ LoginGoto
    \/ LoopTop
    \/ WaitUsername
    \/ FillUsername
    \/ FillPassword
    \/ SolveCaptcha
    \/ ReloadAndRetry
    \/ FillCaptcha
    \/ FindButton
    \/ ClickLogin
    \/ PressEnter
    \/ HandlePopup
    \/ CheckOutcome
    \/ AttemptExcept
    \/ RunAfterLogin
    \/ CheckinStart
    \/ NavByLabel
    \/ NavByPosition
    \/ Expand
    \/ TrySelector
    \/ ScanAllButtons
    \/ SubmitClick
    \/ DetectIndicator
    \/ CheckinReturnTrue
    \/ NoSubmitButton
    \/ CheckinExcept
    \/ RunAfterCheckin
    \/ RunExcept
    \/ RunFinally
    \/ MainFinish

Spec == Init /\ [][Next]_vars

\* ------------------------------------------------------------ properties
InLog(e) == \E i \in 1..Len(attemptLog) : attemptLog[i] = e

\* index of the first non-empty answer of the captcha solver, 0 if none
FirstText ==
    LET hits == {i \in 1..Len(solverLog) : solverLog[i] # ""}
    IN IF hits = {} THEN 0 ELSE CHOOSE i \in hits : \A j \in hits : i <= j

\* do_checkin has returned and run has not yet taken the result
CheckinReturned == pc = "run_after_checkin"

\* C1: login_unlimited never returns a failure value, whatever the page
\* raises, the initial navigation included.
C1_NeverReturnsFailure == loginResult # "False"

\* C2: the captcha field is never filled with an empty text and nothing is
\* submitted in an attempt whose recognition came back empty; such an
\* attempt goes to the page reload and from there to the next attempt; with
\* a solver that always answers empty (no OCR engine) the loop never fills,
\* never submits and, once started, never returns.
C2_NoBlankSubmission ==
    /\ (InLog("fill_captcha") \/ InLog("click") \/ InLog("enter"))
          => captcha_text # ""
    /\ firstFill # NoFill => firstFill.text # ""
    /\ (InLog("solve") /\ captcha_text = "")
          => /\ pc \in {"l_reload", "loop_top", "l_except"}
             /\ pc # "l_reload" => InLog("reload")
    /\ ~ocr => /\ loginResult # "True"
               /\ attempt >= 1 => loginResult = "none"
               /\ InLog("solve") => captcha_text = ""
               /\ firstFill = NoFill

C2_Witness ==
    /\ ~ocr
    /\ attempt >= 2
    /\ reloads >= 2
    /\ pc = "loop_top"
    /\ InLog("reload")

\* C3 as stated: do_checkin returns True exactly when a click on a submit
\* control was issued.
C3_TrueIffClickIssued ==
    CheckinReturned => (checkinResult = "True" <=> clickIssued)

\* C3 amended: do_checkin returns True exactly when a submit control was
\* located and the click on it completed without an error; it returns False
\* when no click was issued and when the click raised.
C3_TrueIffClickCompleted ==
    CheckinReturned =>
        /\ checkinResult \in {"True", "False"}
        /\ checkinResult = "True" <=> (clickIssued /\ clickCompleted)
        /\ clickIssued => submit_button # 0

C3_Witness ==
    /\ CheckinReturned
    /\ clickIssued
    /\ ~clickCompleted
    /\ checkinResult = "False"

\* C4: once selector N is the first to match, no selector after N is
\* evaluated and the control clicked is the element selector N found, also
\* when reading that element's text fails.
C4_FirstMatchWins ==
    firstMatch # NoMatch =>
        /\ \A i \in evaluated : i <= firstMatch.selector
        /\ clickIssued => submit_button = firstMatch.element

\* C5: whatever steps 1 and 2 did, do_checkin goes on to the selector chain,
\* and its result is fixed by the submit control alone: True when one was
\* found and clicked, False otherwise.
C5_ResultIndependentOfEarlySteps ==
    /\ pc \in {"c_nav", "c_nav_fallback", "c_expand"} => checkinResult = "none"
    /\ CheckinReturned =>
        /\ 1 \in evaluated
        /\ checkinResult = IF submit_button # 0 /\ clickCompleted
                             THEN "True" ELSE "False"

C5_Witness ==
    /\ CheckinReturned
    /\ ~account_list_clicked
    /\ ~expand_clicked
    /\ checkinResult = "True"

\* C6: at the outcome check login_unlimited returns True, in the same
\* attempt, exactly when the page address differs from the login address;
\* otherwise it goes to the next iteration.
C6_OutcomeCheck ==
    [][pc = "l_check" =>
         IF url # login_url
           THEN /\ loginResult' = "True"
                /\ pc' = "run_after_login"
                /\ attempt' = attempt
           ELSE /\ loginResult' = "none"
                /\ pc' = "loop_top"]_vars

C6_Witness ==
    /\ loginResult = "True"
    /\ attempt = 1
    /\ url # login_url
    /\ pc = "run_after_login"

\* C7: when the solver answers empty on attempts 1..k and a text t on attempt
\* k+1 and nothing else fails, the captcha field is first filled in attempt
\* k+1, with t, after exactly k page reloads.
C7_ReloadsBeforeFirstFill ==
    (~otherError /\ FirstText # 0) =>
        IF pc = "l_fill_captcha" /\ Len(solverLog) = FirstText
          THEN /\ firstFill = NoFill
               /\ attempt = FirstText
               /\ reloads = FirstText - 1
          ELSE firstFill = [attempt |-> FirstText,
                            text |-> solverLog[FirstText],
                            reloads |-> FirstText - 1]

C7_Witness ==
    /\ ~otherError
    /\ solverLog = <<"", "", "AB12">>
    /\ firstFill = [attempt |-> 3, text |-> "AB12", reloads |-> 2]

\* C8: the process ends with exit code 0 exactly when run succeeded.
C8_ExitCodeZeroIffSuccess ==
    pc = "exited" => (exitCode = 0 <=> runResult = "True")

\* C9: when run has returned, close() has been carried out on the browser it
\* launched and stop() on the driver it started, also when one of the two
\* raised.
C9_CleanupCarriedOut ==
    pc \in {"main_report", "exited"} =>
        /\ browser => browserClosed # "no"
        /\ playwright => playwrightStopped # "no"

\* C10: when the 7 selectors and the scan of all buttons found nothing,
\* do_checkin returns False and page_content.html has been written, whatever
\* became of the screenshot before it (the page content itself being
\* readable and writable).
C10_DumpWritten ==
    (CheckinReturned /\ scanned /\ submit_button = 0 /\ dump # "failed") =>
        /\ checkinResult = "False"
        /\ evaluated = 1..NumSelectors
        /\ dump = "written"

\* C11: an exception of run's orchestration is caught inside run, run
\* returns False, main posts a failure notification when the secrets are
\* configured, never a success notification, and the process ends with a
\* non-zero exit code.
C11_RunErrorSurfacesAsFailure ==
    runError # "" =>
        /\ pc \in {"run_except", "run_finally", "main_report", "exited"}
        /\ pc \in {"run_finally", "main_report", "exited"} => runResult = "False"
        /\ notified # "success"
        /\ pc = "exited" =>
             /\ exitCode = 1
             /\ NotificationConfigured(appToken, uid) => notified = "failure"

C11_Witness ==
    /\ pc = "exited"
    /\ runError = "launch"
    /\ notified = "failure"
    /\ exitCode = 1

\* C12: a notification that was not delivered changes nothing: the process
\* goes on to its exit and the exit code is 0 after a successful run and 1
\* after a failed one, whatever became of the request.
C12_NotificationNeverEscalated ==
    /\ delivered # "none" => pc = "exited"
    /\ (pc = "exited" /\ runResult # "none") =>
          exitCode = IF runResult = "True" THEN 0 ELSE 1

C12_Witness ==
    /\ pc = "exited"
    /\ delivered = "error"
    /\ runResult = "True"
    /\ exitCode = 0

\* positions inside the retry loop of login_unlimited
LoopPcs == {"loop_top", "l_wait_user", "l_fill_user", "l_fill_pass", "l_solve",
            "l_reload", "l_fill_captcha", "l_find_button", "l_click",
            "l_press", "l_popup", "l_check", "l_except"}

\* the handler of line 214 has just run for an attempt that failed while
\* waiting for the username input or filling the username or the password
CredentialStepFailed ==
    /\ pc = "loop_top"
    /\ attemptLog \in {<<"backoff">>, <<"fill_user", "backoff">>,
                       <<"fill_user", "fill_pass", "backoff">>}

\* C13 as stated: after such a failure the next attempt begins only after a
\* delay of 2 seconds and a page reload.
C13_BackoffAndReload ==
    CredentialStepFailed => (backoff = 2 /\ InLog("reload"))

\* C13 amended: after such a failure the next attempt begins after a delay of
\* 2 seconds, the same in every attempt, and without a page reload.
C13_BackoffWithoutReload ==
    CredentialStepFailed => (backoff = 2 /\ ~InLog("reload"))

C13_Witness ==
    /\ CredentialStepFailed
    /\ attempt = 2
    /\ attemptLog = <<"fill_user", "backoff">>
    /\ backoff = 2

\* C14: inside the retry loop every step, raising or not, leads to another
\* position of the loop with nothing returned; the handler of an error leads
\* to the next iteration; the only way out is the outcome check that finds
\* the address changed, which returns True.
C14_ErrorsAreRetried ==
    [][(pc \in LoopPcs) =>
         ( ( (pc' \in LoopPcs /\ loginResult' = "none")
             \/ (pc = "l_check" /\ loginResult' = "True") )
           /\ (pc = "l_except" => pc' = "loop_top") )]_vars

C14_Witness ==
    /\ pc = "l_wait_user"
    /\ attempt = 3
    /\ otherError
    /\ loginResult = "none"

\* C15 as stated: a button with the text is clicked in preference to an
\* element matched by class only whenever both are present, and Enter is
\* pressed only when nothing matches.
C15_TextButtonPreferred ==
    /\ (InLog("click") /\ (\E i \in 1..Len(loginDom) : loginDom[i] = "text"))
          => login_button = "text"
    /\ InLog("enter") => loginDom = <<>>

\* C15 amended: the element clicked is the first one in document order that
\* matches any of the four alternatives, and Enter is pressed only when
\* nothing matches.
C15_FirstInDocumentOrder ==
    /\ InLog("click") => (loginDom # <<>> /\ login_button = loginDom[1])
    /\ InLog("enter") => loginDom = <<>>

C15_Witness ==
    /\ InLog("click")
    /\ loginDom = <<"class", "text">>
    /\ login_button = "class"

\* C18: the attempt counter is 0 when the loop is entered, every iteration
\* adds exactly 1 to it at its start and no other step of the loop changes
\* it, however the iteration before ended.
C18_AttemptCounter ==
    [][ ((pc = "login_goto" /\ pc' = "loop_top") => attempt' = 0)
        /\ (pc \in LoopPcs =>
              attempt' = (IF pc = "loop_top" THEN attempt + 1 ELSE attempt))
        /\ (pc = "loop_top" => pc' = "l_wait_user") ]_vars

C18_Witness ==
    /\ pc = "l_wait_user"
    /\ attempt = 3
    /\ reloads = 1
    /\ otherError

\* C20: in one attempt at most one submit action is issued, never both the
\* click and the Enter key, and only after the username, the password and a
\* non-empty captcha text were filled in that attempt, in that order.
C20_SubmitOrder ==
    (InLog("click") \/ InLog("enter")) =>
        /\ Len(attemptLog) >= 5
        /\ SubSeq(attemptLog, 1, 4) =
              <<"fill_user", "fill_pass", "solve", "fill_captcha">>
        /\ attemptLog[5] \in {"click", "enter"}
        /\ \A i \in 6..Len(attemptLog) : attemptLog[i] \notin {"click", "enter"}
        /\ captcha_text # ""

C20_Witness ==
    /\ InLog("enter")
    /\ pc = "l_check"
    /\ attempt = 2

\* the scan of all buttons ran: every selector of the chain was evaluated
\* and the chain left no submit control, so a control held now is the
\* scan's own pick
ScanOnlyAfterChain ==
    /\ evaluated = 1..NumSelectors
    /\ submit_button # 0 => submit_button > MaxElems

\* indices of the listed buttons whose text contains 提交打卡
Containing == {i \in 1..Len(scanList) : scanList[i].text \in {"exact", "longer"}}

\* the scan got as far as button i and put it to the test of line 349: no
\* button before it was selected, and its text and class were read
Tested(i) ==
    /\ scanList[i].read = "ok"
    /\ \A j \in 1..(i - 1) : ~(j \in Containing /\ scanList[j].read = "ok")

\* C16 as stated: the scan runs only when all 7 selectors found nothing
\* and selects a button only if its text is exactly 提交打卡; a button whose
\* text contains that string together with other characters is not selected.
C16_ScanExactText ==
    scanned =>
        /\ ScanOnlyAfterChain
        /\ submit_button # 0 => scanPick = "exact"

\* C16 amended: the scan runs only when all 7 selectors found nothing and
\* selects a button only if its text contains 提交打卡; a button whose text
\* contains that string together with other characters is selected when the
\* scan puts it to the test (no button before it was selected and its text
\* and class attribute were read), as is one whose text is exactly 提交打卡.
C16_ScanContainedText ==
    scanned =>
        /\ ScanOnlyAfterChain
        /\ submit_button # 0 =>
             /\ submit_button - MaxElems \in Containing
             /\ scanPick = scanList[submit_button - MaxElems].text
        /\ \A i \in Containing : Tested(i) => submit_button = MaxElems + i

\* a button whose text and class cannot both be read is passed over although
\* its text is 提交打卡, and the button after it, with a longer text, is taken
C16_Witness ==
    /\ scanned
    /\ scanList = << [text |-> "exact", read |-> "error"],
                     [text |-> "longer", read |-> "ok"] >>
    /\ scanPick = "longer"
    /\ submit_button = MaxElems + 2

\* C17: once the submit click has completed do_checkin returns True, with
\* an indicator detected or not and whatever the detection raised; the
\* detection ends at the first indicator it finds (located and read): no
\* indicator after it is looked for.
C17_ResultIgnoresIndicators ==
    /\ (CheckinReturned /\ clickCompleted) => checkinResult = "True"
    /\ pc \in {"c_indicators", "c_return"} => clickCompleted
    /\ indicator # 0 => (indIdx = indicator /\ pc \in {"c_return", "run_after_checkin"})

C17_Witness ==
    /\ CheckinReturned
    /\ clickCompleted
    /\ indicator = 0
    /\ indIdx = NumIndicators
    /\ checkinResult = "True"

\* a submit action was issued in the current attempt
Submitted == InLog("click") \/ InLog("enter")

\* C19: if after a submission the page address differs from the login
\* address and stays so, login_unlimited eventually returns True, also when
\* the submit click or key press of that attempt raised after the page had
\* navigated away.  In the form a finite run refutes: login_unlimited never
\* gives up an attempt and goes back to the top of the loop while, after the
\* submission of that attempt, the address differs from the login address.
\* (From such a state every further attempt on a page without the login form
\* ends at the wait of line 150 in the handler of line 214, the address
\* staying what it is; the counter of line 146 grows without bound.)
C19_ReturnsTrueOnceAway ==
    (pc = "loop_top" /\ Submitted) => url = login_url

\* do_checkin is executing or has returned
CheckinPcs == {"checkin_start", "c_nav", "c_nav_fallback", "c_expand",
               "c_select", "c_scan", "c_submit", "c_indicators", "c_return",
               "c_no_button", "c_error", "run_after_checkin"}
CheckinStarted == pc \in CheckinPcs \/ checkinResult # "none"

\* C21: in run, do_checkin is started only after login_unlimited has
\* returned True and never otherwise; run returns True exactly when both
\* login_unlimited and do_checkin returned True; and over a whole run the
\* check-in submit control is clicked at most once.
C21_RunOrdering ==
    /\ CheckinStarted => loginResult = "True"
    /\ runResult # "none" =>
          (runResult = "True" <=> (loginResult = "True" /\ checkinResult = "True"))
    /\ submitClicks <= 1

C21_Witness ==
    /\ pc = "main_report"
    /\ loginResult = "True"
    /\ checkinResult = "True"
    /\ runResult = "True"
    /\ submitClicks = 1

====
